---- MODULE Spec2Model ----
(***************************************************************************)
(* slippy.contact.sub_models.SubsurfaceStress: construction and solve       *)
(* (specification Spec), and slippy.contact.sub_models                     *)
(* .UpdateShiftRollingSurface: construction and time steps (specification  *)
(* ShiftSpec).  Each specification leaves the other sub-model's variables  *)
(* idle.                                                                   *)
(*                                                                         *)
(* Two instances are built from the same constructor arguments, one with   *)
(* keep_kernels=True and one with keep_kernels=False, and every solve call *)
(* is made on both with the same state dict.                               *)
(*                                                                         *)
(* Representation.                                                         *)
(*  - A Python str of load directions such as 'xz' is the sequence of its  *)
(*    characters <<"x","z">>; a tuple of strings ('xz',) is <<"xz">>.      *)
(*  - An array is a record [shape, k, n]: its shape and its value at one   *)
(*    representative entry.  k = "num" is the number n, k = "sqrt" is the  *)
(*    square root of n (n not a perfect square), k = "nan" is NaN, and     *)
(*    k = "irr" is a real number that is not an integer and that the model *)
(*    does not evaluate.  Arithmetic is exact (no floating round-off).     *)
(*  - z is a record [none, len]: None, or an array of len depths.          *)
(*  - A dict is a function on its set of keys.                             *)
(*  - An outcome is [exc, arg]: the exception type raised and its          *)
(*    argument; exc = "None" is a normal return.                           *)
(***************************************************************************)
EXTENDS Integers, Sequences, FiniteSets, TLC

VARIABLES
    phase,      \* "new", "built", "ctor_failed"
    args,       \* the constructor arguments (surface, load_components, stress_components, z)
    model,      \* self.model: surface number -> material of that surface
    ctor_exc,   \* outcome of the constructor
    sub,        \* keep_kernels -> the instance built with that flag
    call        \* the solve call just made: its input state, the _cache_span the
                \* keep_kernels=True instance had when it was made and, per
                \* instance, its outcome

VARIABLES
    rphase,         \* "new", "built", "ctor_failed"
    rargs,          \* the constructor arguments (surface_to_roll, speed_x, speed_y)
    rexc,           \* outcome of the constructor
    roller,         \* the UpdateShiftRollingSurface instance
    model_surfaces, \* self.model.surface_1 and surface_2: shift() calls received
    steps,          \* number of steps that returned
    last_step       \* the step just made: its input state and its outcome

sub_vars == <<phase, args, model, ctor_exc, sub, call>>

shift_vars == <<rphase, rargs, rexc, roller, model_surfaces, steps, last_step>>

vars == <<phase, args, model, ctor_exc, sub, call,
          rphase, rargs, rexc, roller, model_surfaces, steps, last_step>>

----------------------------------------------------------------------------
(* Bounds *)

MaxSpan == 2        \* load fields have shape <<n, n>>, n in 1..MaxSpan
MaxLoad == 1        \* load values are 0..MaxLoad
RootBound == 12     \* principal values are searched in -RootBound..RootBound
MaxSpeed == 2       \* rolling speeds are -1..MaxSpeed
MaxDt == 2          \* time steps are 1..MaxDt
MaxSteps == 2       \* at most MaxSteps steps are made on an instance

----------------------------------------------------------------------------
(* Small helpers *)

SeqToSet(s) == {s[i] : i \in DOMAIN s}

EmptyDict == [k \in {} |-> 0]

NoExc == [exc |-> "None", arg |-> ""]

Raise(e, a) == [exc |-> e, arg |-> a]

Max(S) == CHOOSE m \in S : \A y \in S : m >= y

Min(S) == CHOOSE m \in S : \A y \in S : m <= y

Num(shape, n) == [shape |-> shape, k |-> "num", n |-> n]

\* F applied to the value of v, which is evaluated once (a local variable)
Bind(v, F(_)) == CHOOSE out \in {F(x) : x \in {v}} : TRUE

----------------------------------------------------------------------------
(* Materials: the influence of a unit load on each Cauchy component        *)

Cauchy == <<"xx", "yy", "zz", "xy", "yz", "xz">>

CauchySet == SeqToSet(Cauchy)

ZeroTensor == [c \in CauchySet |-> 0]

Rigid == [im |-> FALSE, normal |-> ZeroTensor, tangential_x |-> ZeroTensor,
          tangential_y |-> ZeroTensor]

Steel == [im |-> TRUE,
          normal |-> [ZeroTensor EXCEPT !["xx"] = -1, !["yy"] = -2, !["zz"] = -4],
          tangential_x |-> [ZeroTensor EXCEPT !["xz"] = 1],
          tangential_y |-> [ZeroTensor EXCEPT !["yz"] = 1]]

----------------------------------------------------------------------------
(* SubsurfaceStress.__init__ *)

valid_stresses == <<"xx", "yy", "zz", "xy", "yz", "xz", "1", "2", "3", "vm">>

\* Python's  lc not in 'xz'  on strings is a substring test
InXZ(lc) == lc \in {"", "x", "z", "xz"}

LoadKey(c) == "loads_" \o c

SurfaceKey(s, sc) == "surface_" \o ToString(s) \o "_" \o sc

requires_of(load_components) == {LoadKey(c) : c \in SeqToSet(load_components)}

provides_of(surface, stress_components) ==
    {SurfaceKey(s, sc) : s \in SeqToSet(surface), sc \in SeqToSet(stress_components)}

comps_to_find_of(stress_components) ==
    IF \E s \in {"1", "2", "3", "vm"} : s \in SeqToSet(stress_components)
    THEN Cauchy
    ELSE stress_components

\* the exception the constructor raises for these arguments
init_exc(a) ==
    IF \E i \in DOMAIN a.load_components : ~InXZ(a.load_components[i])
    THEN Raise("ValueError", "Unrecognised load direction")
    ELSE IF \E i \in DOMAIN a.stress_components :
                a.stress_components[i] \notin SeqToSet(valid_stresses)
    THEN Raise("ValueError", "Unrecognised stress component")
    ELSE NoExc

\* the instance the constructor leaves behind
init(a, keep_kernels) ==
    [surfaces |-> a.surface,
     load_components |-> a.load_components,
     stress_components |-> a.stress_components,
     keep_kernels |-> keep_kernels,
     kernel_cache |-> [s \in SeqToSet(a.surface) |->
                        [sc \in SeqToSet(a.stress_components) |-> EmptyDict]],
     cache_span |-> <<0, 0>>,
     z |-> a.z,
     comps_to_find |-> comps_to_find_of(a.stress_components),
     requires |-> requires_of(a.load_components),
     provides |-> provides_of(a.surface, a.stress_components)]

----------------------------------------------------------------------------
(* The derived quantities of SubsurfaceStress.solve, at one entry          *)

Sq(x) == x * x

\* the square root of a natural number
SqrtVal(shape, m) ==
    IF \E r \in 0..m : r * r = m
    THEN Num(shape, CHOOSE r \in 0..m : r * r = m)
    ELSE [shape |-> shape, k |-> "sqrt", n |-> m]

\* lines 133-139; the sum under the root is always even
von_mises(shape, t) ==
    SqrtVal(shape, (Sq(t["xx"] - t["yy"]) + Sq(t["yy"] - t["zz"]) + Sq(t["zz"] - t["xx"])
                    + 6 * (Sq(t["xy"]) + Sq(t["yz"]) + Sq(t["xz"]))) \div 2)

trace_b(t) == t["xx"] + t["yy"] + t["zz"]

invariant_c(t) == t["xx"] * t["yy"] + t["yy"] * t["zz"] + t["xx"] * t["zz"]
                  - Sq(t["xy"]) - Sq(t["xz"]) - Sq(t["yz"])

invariant_d(t) == t["xx"] * t["yy"] * t["zz"] + 2 * t["xy"] * t["xz"] * t["yz"]
                  - t["xx"] * Sq(t["yz"]) - t["yy"] * Sq(t["xz"]) - t["zz"] * Sq(t["xy"])

\* 3 * p, with p = c - b^2 / 3
p3(t) == 3 * invariant_c(t) - Sq(trace_b(t))

\* 27 * q, with q = (2/27) b^3 - (1/3) b c + d
q27(t) == 2 * trace_b(t) * Sq(trace_b(t)) - 9 * trace_b(t) * invariant_c(t)
          + 27 * invariant_d(t)

\* The values of principals[0..2] (lines 160-163) for p < 0.  The trigonometric
\* formula yields the three real roots w of  w^3 + p w + q = 0, and
\* principals[i] = w - b/3; with u = 3 w = 3 x + b the equation is
\* u^3 + 3 (3p) u + 27 q = 0.
principal_roots(t) ==
    {x \in -RootBound..RootBound :
        LET u == 3 * x + trace_b(t)
        IN  u * u * u + 3 * p3(t) * u + q27(t) = 0}

\* the three roots are all among the integers found
roots_exact(t) ==
    LET U == {3 * x + trace_b(t) : x \in principal_roots(t)}
    IN  \/ Cardinality(U) = 3
        \/ Cardinality(U) = 2 /\ \E u1 \in U : \E u2 \in U \ {u1} : 0 - (u1 + u2) \in U

\* lines 160-168: the dict of the values '1', '2', '3'.  p = 0 divides by zero,
\* which numpy evaluates to NaN.
principals(shape, t) ==
    IF p3(t) = 0
    THEN [i \in {"1", "2", "3"} |-> [shape |-> shape, k |-> "nan", n |-> 0]]
    ELSE IF ~roots_exact(t)
    THEN [i \in {"1", "2", "3"} |-> [shape |-> shape, k |-> "irr", n |-> 0]]
    ELSE LET s1 == Max(principal_roots(t))
             s3 == Min(principal_roots(t))
         IN  ("1" :> Num(shape, s1)) @@ ("3" :> Num(shape, s3))
             @@ ("2" :> Num(shape, trace_b(t) - s1 - s3))

----------------------------------------------------------------------------
(* SubsurfaceStress.solve *)

\* material.sss_influence_matrices_*(span, grid_spacing, comps_to_find, z, cuda):
\* one kernel per requested component
im_comps_of(kernels, comps_to_find) == [key \in SeqToSet(comps_to_find) |-> kernels[key]]

\* plan_multi_convolve(example_loads, value, None, periodic_axes) for each kernel:
\* a convolution function bound to the span of example_loads
plan_all(span, im_comps) == [key \in DOMAIN im_comps |-> [span |-> span, kernel |-> im_comps[key]]]

\* conv_func(loads) at the representative entry
convolve(conv_func, loads) == conv_func.kernel * loads.n

\* lines 111-127 with the test of line 125 left out: the kernels built are
\* stored whatever keep_kernels is
get_conv_funcs_cache_always(self, material, surface_num, span, l_comp) ==
    IF self.keep_kernels /\ span = self.cache_span
    THEN IF l_comp \in DOMAIN self.kernel_cache[surface_num]
         THEN [self |-> self, conv_funcs |-> self.kernel_cache[surface_num][l_comp],
               built |-> FALSE, exc |-> NoExc]
         ELSE [self |-> self, conv_funcs |-> EmptyDict, built |-> FALSE,
               exc |-> Raise("KeyError", l_comp)]
    ELSE IF l_comp \notin {"z", "x", "y"}
         THEN [self |-> self, conv_funcs |-> EmptyDict, built |-> FALSE,
               exc |-> Raise("ValueError", "Unrecognised load component requested")]
         ELSE LET kernels == IF l_comp = "z" THEN material.normal
                             ELSE IF l_comp = "x" THEN material.tangential_x
                             ELSE material.tangential_y
                  conv_funcs == plan_all(span, im_comps_of(kernels, self.comps_to_find))
              IN  [self |-> [self EXCEPT !.cache_span = span,
                                         !.kernel_cache[surface_num] =
                                             (l_comp :> conv_funcs) @@ @],
                   conv_funcs |-> conv_funcs, built |-> TRUE, exc |-> NoExc]

\* lines 111-127 for one load component: fetch or build the convolution functions.
\* Result: [self, conv_funcs, built, exc]
get_conv_funcs(self, material, surface_num, span, l_comp) ==
    IF self.keep_kernels /\ span = self.cache_span
    THEN IF l_comp \in DOMAIN self.kernel_cache[surface_num]
         THEN [self |-> self, conv_funcs |-> self.kernel_cache[surface_num][l_comp],
               built |-> FALSE, exc |-> NoExc]
         ELSE [self |-> self, conv_funcs |-> EmptyDict, built |-> FALSE,
               exc |-> Raise("KeyError", l_comp)]
    ELSE IF l_comp \notin {"z", "x", "y"}
         THEN [self |-> self, conv_funcs |-> EmptyDict, built |-> FALSE,
               exc |-> Raise("ValueError", "Unrecognised load component requested")]
         ELSE LET kernels == IF l_comp = "z" THEN material.normal
                             ELSE IF l_comp = "x" THEN material.tangential_x
                             ELSE material.tangential_y
                  conv_funcs == plan_all(span, im_comps_of(kernels, self.comps_to_find))
              IN  [self |-> IF self.keep_kernels
                            THEN [self EXCEPT !.cache_span = span,
                                              !.kernel_cache[surface_num] =
                                                  (l_comp :> conv_funcs) @@ @]
                            ELSE self,
                   conv_funcs |-> conv_funcs, built |-> TRUE, exc |-> NoExc]

\* lines 129-131: add the convolved loads to the accumulator.
\* ir = [t, keys]: the values (zero by default) and the keys of the defaultdict
accumulate(ir, conv_funcs, loads) ==
    [t |-> [key \in CauchySet |->
               IF key \in DOMAIN conv_funcs
               THEN ir.t[key] + convolve(conv_funcs[key], loads)
               ELSE ir.t[key]],
     keys |-> ir.keys \cup DOMAIN conv_funcs]

\* lines 111-131 for one load component, given the result got of lines 111-127.
\* acc = [self, ir, lookups, builds, exc]: lookups are the (surface, load
\* component) pairs that reached line 111, builds those whose kernels were built
load_step(acc, got, surface_num, l_comp, current_state) ==
    LET builds == IF got.built THEN Append(acc.builds, <<surface_num, l_comp>>)
                  ELSE acc.builds
        seen == [acc EXCEPT !.lookups = Append(@, <<surface_num, l_comp>>)]
    IN  IF got.exc.exc /= "None"
        THEN [seen EXCEPT !.exc = got.exc]
        ELSE IF DOMAIN got.conv_funcs = {}
        THEN [seen EXCEPT !.self = got.self, !.builds = builds]
        ELSE IF LoadKey(l_comp) \notin DOMAIN current_state
        THEN [seen EXCEPT !.self = got.self, !.builds = builds,
                          !.exc = Raise("KeyError", LoadKey(l_comp))]
        ELSE IF \E key \in DOMAIN got.conv_funcs :
                   got.conv_funcs[key].span /= current_state[LoadKey(l_comp)].shape
        THEN [seen EXCEPT !.self = got.self, !.builds = builds,
                          !.exc = Raise("ValueError", "shape mismatch")]
        ELSE [seen EXCEPT !.self = got.self, !.builds = builds,
                          !.ir = accumulate(acc.ir, got.conv_funcs,
                                            current_state[LoadKey(l_comp)])]

\* lines 110-131: the loop over load components from index i on
RECURSIVE load_loop(_, _, _, _, _, _)
load_loop(acc, material, surface_num, span, current_state, i) ==
    IF acc.exc.exc /= "None" \/ i > Len(acc.self.load_components)
    THEN acc
    ELSE Bind(get_conv_funcs(acc.self, material, surface_num, span,
                             acc.self.load_components[i]),
              LAMBDA got :
                  Bind(load_step(acc, got, surface_num, acc.self.load_components[i],
                                 current_state),
                       LAMBDA step :
                           load_loop(step, material, surface_num, span, current_state,
                                     i + 1)))

\* lines 132-168: the values of intermediate_results after the derived
\* quantities are added.  Result: [results, exc]
derive(self, ir, out_put_shape) ==
    LET sc == SeqToSet(self.stress_components)
        raw == [key \in CauchySet |-> Num(out_put_shape, ir.t[key])]
        with_vm == IF "vm" \in sc
                   THEN ("vm" :> von_mises(out_put_shape, ir.t)) @@ raw
                   ELSE raw
        want_principal == "1" \in sc \/ "2" \in sc \/ "3" \in sc
        \* reading xx .. xz (lines 134-151) creates the missing keys in the defaultdict
        keys == IF "vm" \in sc \/ want_principal
                THEN ir.keys \cup CauchySet \cup (sc \cap {"vm"})
                ELSE ir.keys
    IN  IF ~want_principal
        THEN [results |-> with_vm, exc |-> NoExc]
        \* lines 157-159 delete from the dict they iterate over
        ELSE IF \E key \in keys : key \notin sc
        THEN [results |-> with_vm,
              exc |-> Raise("RuntimeError", "dictionary changed size during iteration")]
        ELSE [results |-> principals(out_put_shape, ir.t) @@ with_vm, exc |-> NoExc]

\* as write_results, but writing every key of intermediate_results
write_results_every_key(current_state, surface_num, stress_components, results) ==
    [key \in DOMAIN current_state \cup
              {SurfaceKey(surface_num, sc) : sc \in DOMAIN results} |->
        IF \E sc \in DOMAIN results : key = SurfaceKey(surface_num, sc)
        THEN results[CHOOSE sc \in DOMAIN results : key = SurfaceKey(surface_num, sc)]
        ELSE current_state[key]]

\* lines 170-171: write the requested components of one surface
write_results(current_state, surface_num, stress_components, results) ==
    [key \in DOMAIN current_state \cup
              {SurfaceKey(surface_num, sc) : sc \in SeqToSet(stress_components)} |->
        IF \E sc \in SeqToSet(stress_components) : key = SurfaceKey(surface_num, sc)
        THEN results[CHOOSE sc \in SeqToSet(stress_components) :
                        key = SurfaceKey(surface_num, sc)]
        ELSE current_state[key]]

\* as finish_surface, but writing each requested Cauchy component as soon as
\* the loop over load components has finished, before the derived quantities
finish_surface_early_write(acc, derived, surface_num, current_state) ==
    LET fail(st, e) == [self |-> acc.self, state |-> st, written |-> {},
                        lookups |-> acc.lookups, builds |-> acc.builds, exc |-> e]
        early == write_results(current_state, surface_num,
                               SelectSeq(acc.self.stress_components,
                                         LAMBDA sc : sc \in CauchySet),
                               derived.results)
    IN  IF acc.exc.exc /= "None" THEN fail(current_state, acc.exc)
        ELSE IF derived.exc.exc /= "None" THEN fail(early, derived.exc)
        ELSE [self |-> acc.self,
              state |-> write_results(current_state, surface_num,
                                      acc.self.stress_components, derived.results),
              written |-> {SurfaceKey(surface_num, sc) :
                              sc \in SeqToSet(acc.self.stress_components)},
              lookups |-> acc.lookups,
              builds |-> acc.builds,
              exc |-> NoExc]

\* lines 132-171, given the result acc of the loop over load components and the
\* result derived of lines 132-168: an exception leaves the state dict alone,
\* otherwise lines 170-171 write the requested components.
\* Result: [self, state, written, lookups, builds, exc]
finish_surface(acc, derived, surface_num, current_state) ==
    LET fail(e) == [self |-> acc.self, state |-> current_state, written |-> {},
                    lookups |-> acc.lookups, builds |-> acc.builds, exc |-> e]
    IN  IF acc.exc.exc /= "None" THEN fail(acc.exc)
        ELSE IF derived.exc.exc /= "None" THEN fail(derived.exc)
        ELSE [self |-> acc.self,
              state |-> write_results(current_state, surface_num,
                                      acc.self.stress_components, derived.results),
              written |-> {SurfaceKey(surface_num, sc) :
                              sc \in SeqToSet(acc.self.stress_components)},
              lookups |-> acc.lookups,
              builds |-> acc.builds,
              exc |-> NoExc]

\* lines 104-171: the body of the loop over surfaces, for one surface.
\* Result: [self, state, written, lookups, builds, exc]
surface_step(self, surfaces_of_model, surface_num, span, out_put_shape, current_state) ==
    LET fail(e) == [self |-> self, state |-> current_state, written |-> {},
                    lookups |-> <<>>, builds |-> <<>>, exc |-> e]
    IN  IF surface_num \notin DOMAIN surfaces_of_model
        THEN fail(Raise("AttributeError", "surface_" \o ToString(surface_num)))
        ELSE IF ~surfaces_of_model[surface_num].im
        THEN fail(Raise("AssertionError",
                        "Sub surface stress only valid for influence matrix based materials"))
        ELSE Bind(load_loop([self |-> self, ir |-> [t |-> ZeroTensor, keys |-> {}],
                             lookups |-> <<>>, builds |-> <<>>, exc |-> NoExc],
                            surfaces_of_model[surface_num], surface_num, span,
                            current_state, 1),
                  LAMBDA acc :
                      Bind(derive(acc.self, acc.ir, out_put_shape),
                           LAMBDA derived :
                               finish_surface(acc, derived, surface_num, current_state)))

\* the result of the loop over surfaces after one more surface
\* r = [self, state, written, lookups, builds, exc, at, done]
after_surface(r, st, surface_num) ==
    [self |-> st.self,
     state |-> st.state,
     written |-> r.written \cup st.written,
     lookups |-> r.lookups \o st.lookups,
     builds |-> r.builds \o st.builds,
     exc |-> st.exc,
     at |-> IF st.exc.exc /= "None" THEN surface_num ELSE 0,
     done |-> IF st.exc.exc /= "None" THEN r.done ELSE r.done \cup {surface_num}]

\* lines 103-171: the loop over surfaces from index i on
RECURSIVE surface_loop(_, _, _, _, _)
surface_loop(r, surfaces_of_model, span, out_put_shape, i) ==
    IF r.exc.exc /= "None" \/ i > Len(r.self.surfaces)
    THEN r
    ELSE Bind(surface_step(r.self, surfaces_of_model, r.self.surfaces[i], span,
                           out_put_shape, r.state),
              LAMBDA st :
                  Bind(after_surface(r, st, r.self.surfaces[i]),
                       LAMBDA nxt :
                           surface_loop(nxt, surfaces_of_model, span, out_put_shape,
                                        i + 1)))

\* SubsurfaceStress.solve(current_state) on the instance self.
\* Result: the instance and the state dict afterwards, the keys written, the
\* (surface, load component) pairs processed and those whose kernels were built,
\* the exception raised, the surface being processed when it was raised
\* (0: none), and the surfaces completed.
solve(self, surfaces_of_model, current_state) ==
    LET r0(e) == [self |-> self, state |-> current_state, written |-> {},
                  lookups |-> <<>>, builds |-> <<>>, exc |-> e, at |-> 0, done |-> {}]
    IN  IF Len(self.load_components) = 0
        THEN r0(Raise("IndexError", "string index out of range"))
        ELSE IF LoadKey(self.load_components[1]) \notin DOMAIN current_state
        THEN r0(Raise("KeyError", LoadKey(self.load_components[1])))
        ELSE IF self.z.none
        THEN r0(Raise("TypeError", "object of type 'NoneType' has no len()"))
        ELSE LET span == current_state[LoadKey(self.load_components[1])].shape
             IN  surface_loop(r0(NoExc), surfaces_of_model, span,
                              <<self.z.len>> \o span, 1)

----------------------------------------------------------------------------
(* Inputs *)

Spans == {<<n, n>> : n \in 1..MaxSpan}

LoadVals == 0..MaxLoad

\* the surfaces of the contact model and their materials
Models == {
    (1 :> Steel) @@ (2 :> Steel),
    (1 :> Steel) @@ (2 :> Rigid),
    (1 :> Rigid) @@ (2 :> Steel) }

SurfaceArgs == {<<1>>, <<2>>, <<1, 2>>}

\* 'z', 'x', 'xz', 'zx', 'y' and the tuples ('xz',), ('z', 'xz')
LoadArgs == {<<"z">>, <<"x">>, <<"x", "z">>, <<"z", "x">>, <<"y">>, <<"xz">>, <<"z", "xz">>}

StressArgs == {
    <<"all">>,
    <<"s1">>,
    <<>>,
    <<"zz", "xz">>,
    <<"vm">>,
    <<"1">>,
    <<"zz", "3">>,
    Cauchy,
    Cauchy \o <<"vm", "1", "2", "3">> }

NoneZ == [none |-> TRUE, len |-> 0]

Depths == [none |-> FALSE, len |-> 2]

CtorArgs ==
    [surface : SurfaceArgs, load_components : LoadArgs,
     stress_components : StressArgs, z : {Depths}]
    \cup
    [surface : {<<1, 2>>}, load_components : {<<"z">>, <<"x", "z">>},
     stress_components : {<<"zz", "xz">>, <<"vm">>}, z : {NoneZ}]

\* a state dict handed to solve: time_step, a value surface_2_zz left by an
\* earlier step, and each loads_* key present or not
time_step == Num(<<>>, 1)

earlier == Num(<<1, 1, 1>>, 9)

States ==
    {[key \in {"time_step", "surface_2_zz"} \cup {LoadKey(c) : c \in present} |->
         IF key = "time_step" THEN time_step
         ELSE IF key = "surface_2_zz" THEN earlier
         ELSE IF key = "loads_x" THEN Num(span, lx) ELSE Num(span, lz)] :
     present \in SUBSET {"x", "z"}, span \in Spans, lx \in LoadVals, lz \in LoadVals}

----------------------------------------------------------------------------
(* The state machine *)

NoInstance == [surfaces |-> <<>>]

NoCall == [made |-> FALSE]

\* no UpdateShiftRollingSurface is in use
ShiftIdle ==
    /\ rphase = "unused"
    /\ rargs = <<>>
    /\ rexc = NoExc
    /\ roller = <<>>
    /\ model_surfaces = <<>>
    /\ steps = 0
    /\ last_step = NoCall

Init ==
    /\ phase = "new"
    /\ args \in CtorArgs
    /\ model \in Models
    /\ ctor_exc = NoExc
    /\ sub = [keep \in BOOLEAN |-> NoInstance]
    /\ call = NoCall
    /\ ShiftIdle

\* SubsurfaceStress(z, surface, load_components=..., stress_components=..., keep_kernels=...)
Construct ==
    /\ phase = "new"
    /\ ctor_exc' = init_exc(args)
    /\ phase' = IF init_exc(args).exc = "None" THEN "built" ELSE "ctor_failed"
    /\ sub' = IF init_exc(args).exc = "None"
               THEN [keep \in BOOLEAN |-> init(args, keep)]
               ELSE sub
    /\ UNCHANGED <<args, model, call>>
    /\ UNCHANGED shift_vars

\* what a call of solve returned or raised, without the instance
outcome(r) == [state |-> r.state, written |-> r.written, lookups |-> r.lookups,
               builds |-> r.builds, exc |-> r.exc, at |-> r.at, done |-> r.done]

\* sub_model.solve(current_state), on both instances
Solve ==
    /\ phase = "built"
    /\ ~call.made
    /\ \E current_state \in States :
          \E kept \in {solve(sub[TRUE], model, current_state)} :
          \E rebuilt \in {solve(sub[FALSE], model, current_state)} :
              /\ sub' = (TRUE :> kept.self) @@ (FALSE :> rebuilt.self)
              /\ call' = [made |-> TRUE,
                          input |-> current_state,
                          cached_span |-> sub[TRUE].cache_span,
                          res |-> (TRUE :> outcome(kept)) @@ (FALSE :> outcome(rebuilt))]
    /\ UNCHANGED <<phase, args, model, ctor_exc>>
    /\ UNCHANGED shift_vars

\* the caller has taken the returned state dict or the exception; the
\* instance keeps its kernel cache for the next call
Return ==
    /\ call.made
    /\ call' = NoCall
    /\ UNCHANGED <<phase, args, model, ctor_exc, sub>>
    /\ UNCHANGED shift_vars

Next == Construct \/ Solve \/ Return

Spec == Init /\ [][Next]_vars

----------------------------------------------------------------------------
(* UpdateShiftRollingSurface *)

\* set(s) of a str s: the set of its characters
set_of_str(s) == SeqToSet(s)

\* the str literal "time_step" of line 14, as its characters
time_step_literal == <<"t", "i", "m", "e", "_", "s", "t", "e", "p">>

shift_name == "roll"

\* _TransientSubModelABC.__init__(name, requires, provides, transient_values,
\* transient_names, interpolation_mode): the sub model keeps its name, its
\* requires and provides sets and its named parameters
transient_init(name, requires, provides, transient_values, transient_names) ==
    [name |-> name, requires |-> requires, provides |-> provides,
     transient |-> [i \in DOMAIN transient_names |->
                       [name |-> transient_names[i], value |-> transient_values[i]]]]

\* the keyword arguments _TransientSubModelABC.solve hands to _solve: the
\* current value of each named parameter (constant parameters)
transient_kwargs(self) ==
    [key \in {self.transient[i].name : i \in DOMAIN self.transient} |->
        self.transient[CHOOSE i \in DOMAIN self.transient :
                           self.transient[i].name = key].value]

\* lines 16-17
shift_init_exc(a) ==
    IF a.surface_to_roll \notin {1, 2}
    THEN Raise("ValueError", "Surface to roll should be either 1 or 2")
    ELSE NoExc

\* UpdateShiftRollingSurface.__init__, lines 14-18
shift_init(name, a) ==
    [base |-> transient_init(name, set_of_str(time_step_literal), {},
                             <<a.speed_x, a.speed_y>>,
                             <<name \o "_shift_speed_x", name \o "_shift_speed_y">>),
     surface_to_roll |-> a.surface_to_roll]

\* a surface of the model before any shift
Unshifted == [shifts |-> 0, moved |-> <<0, 0>>]

\* RollingSurface.shift(a, b): the surface is translated by (a, b)
shift(surface, a, b) ==
    [shifts |-> surface.shifts + 1,
     moved |-> <<surface.moved[1] + a, surface.moved[2] + b>>]

\* UpdateShiftRollingSurface._solve(current_state, **kwargs), lines 20-27.
\* Result: [surfaces, state, exc, distance_x, distance_y]
shift_solve(self, surfaces_of_model, current_state, kwargs) ==
    IF "time_step" \notin DOMAIN current_state
    THEN [surfaces |-> surfaces_of_model, state |-> current_state,
          exc |-> Raise("KeyError", "time_step"), distance_x |-> 0, distance_y |-> 0]
    ELSE LET distance_x == kwargs[self.base.name \o "_shift_speed_x"]
                              * current_state["time_step"]
             distance_y == kwargs[self.base.name \o "_shift_speed_y"]
                              * current_state["time_step"]
         IN  [surfaces |-> IF self.surface_to_roll = 1
                           THEN [surfaces_of_model EXCEPT
                                    ![1] = shift(@, distance_y, distance_x)]
                           ELSE surfaces_of_model,
              state |-> current_state, exc |-> NoExc,
              distance_x |-> distance_x, distance_y |-> distance_y]

SpeedVals == -1..MaxSpeed

ShiftArgs == [surface_to_roll : 0..3, speed_x : SpeedVals, speed_y : SpeedVals]

\* the state dicts handed to a step: time_step and a load field, or a state
\* without time_step
ShiftStates ==
    {("time_step" :> dt) @@ ("loads_z" :> 1) : dt \in 1..MaxDt}
        \cup {[loads_z |-> 1]}

\* no SubsurfaceStress is in use
SubIdle ==
    /\ phase = "unused"
    /\ args = <<>>
    /\ model = <<>>
    /\ ctor_exc = NoExc
    /\ sub = <<>>
    /\ call = NoCall

ShiftInit ==
    /\ rphase = "new"
    /\ rargs \in ShiftArgs
    /\ rexc = NoExc
    /\ roller = <<>>
    /\ model_surfaces = [s \in {1, 2} |-> Unshifted]
    /\ steps = 0
    /\ last_step = NoCall
    /\ SubIdle

\* UpdateShiftRollingSurface(name, surface_to_roll, speed_x, speed_y)
ShiftConstruct ==
    /\ rphase = "new"
    /\ rexc' = shift_init_exc(rargs)
    /\ rphase' = IF shift_init_exc(rargs).exc = "None" THEN "built" ELSE "ctor_failed"
    /\ roller' = IF shift_init_exc(rargs).exc = "None"
                  THEN shift_init(shift_name, rargs)
                  ELSE roller
    /\ UNCHANGED <<rargs, model_surfaces, steps, last_step>>
    /\ UNCHANGED sub_vars

\* one time step: sub_model.solve(current_state)
ShiftSolve ==
    /\ rphase = "built"
    /\ steps < MaxSteps
    /\ \E current_state \in ShiftStates :
          \E r \in {shift_solve(roller, model_surfaces, current_state,
                                 transient_kwargs(roller.base))} :
              /\ model_surfaces' = r.surfaces
              /\ steps' = IF r.exc.exc = "None" THEN steps + 1 ELSE steps
              /\ last_step' = [made |-> TRUE, input |-> current_state, state |-> r.state,
                          exc |-> r.exc, distance_x |-> r.distance_x,
                          distance_y |-> r.distance_y]
    /\ UNCHANGED <<rphase, rargs, rexc, roller>>
    /\ UNCHANGED sub_vars

ShiftNext == ShiftConstruct \/ ShiftSolve

ShiftSpec == ShiftInit /\ [][ShiftNext]_vars

----------------------------------------------------------------------------
(* Properties *)

Keeps == BOOLEAN

\* the last call assigned key in the state dict of the instance
Wrote(keep, key) ==
    /\ key \in DOMAIN call.res[keep].state
    /\ key \in DOMAIN call.input => call.res[keep].state[key] /= call.input[key]

Requested == SeqToSet(args.stress_components)

KeysOf(s, comps) == {SurfaceKey(s, sc) : sc \in comps}

AllWritten(keep, s) == \A key \in KeysOf(s, Requested) : Wrote(keep, key)

NoneWritten(keep, s) == \A key \in KeysOf(s, SeqToSet(valid_stresses)) : ~Wrote(keep, key)

MaterialsOk == \A s \in SeqToSet(args.surface) : model[s].im

\* C1: with keep_kernels, a call whose span differs from the cached span
\* rebuilds the kernels of every (surface, load direction) pair it processes,
\* and never applies a convolution function built for another span.
C1_SpanChangeRebuildsEveryPair ==
    [][(/\ phase = "built"
        /\ call'.made
        /\ LoadKey(args.load_components[1]) \in DOMAIN call'.input
        /\ ~args.z.none
        /\ Requested /= {}
        /\ call'.input[LoadKey(args.load_components[1])].shape /= sub[TRUE].cache_span)
           => /\ call'.res[TRUE].builds = call'.res[TRUE].lookups
              /\ call'.res[TRUE].exc /= Raise("ValueError", "shape mismatch")]_vars

\* C2: cache transparency: on every call the instance with keep_kernels=True
\* and the one with keep_kernels=False both succeed or both fail, and leave
\* the same values under the same state keys.
C2_CacheTransparency ==
    (call.made /\ Requested /= {})
        => /\ (call.res[TRUE].exc.exc = "None") = (call.res[FALSE].exc.exc = "None")
           /\ call.res[TRUE].state = call.res[FALSE].state

\* C3: solve on a state that lacks a key of requires raises the
\* missing-key error for such a key and leaves the state as it was (the
\* surfaces having influence matrix based materials, and z being set).
C3_DependencyEnforcement ==
    \A keep \in Keeps :
        (/\ call.made
         /\ MaterialsOk
         /\ ~args.z.none
         /\ ~(sub[keep].requires \subseteq DOMAIN call.input))
            => /\ call.res[keep].exc.exc = "KeyError"
               /\ call.res[keep].exc.arg \in sub[keep].requires \ DOMAIN call.input
               /\ call.res[keep].state = call.input

\* C4: after a successful solve the state holds every key of provides, every
\* other key of the input is still there with its value, and the keys written
\* are exactly provides.
C4_SuccessWritesProvidesOnly ==
    \A keep \in Keeps :
        (call.made /\ call.res[keep].exc.exc = "None")
            => /\ DOMAIN call.res[keep].state = DOMAIN call.input \cup sub[keep].provides
               /\ \A key \in DOMAIN call.input \ sub[keep].provides :
                      call.res[keep].state[key] = call.input[key]
               /\ \A key \in sub[keep].provides : Wrote(keep, key)
               /\ sub[keep].provides = provides_of(args.surface, args.stress_components)
               /\ call.res[keep].written = sub[keep].provides

\* a successful call that wrote the keys of surface 1 and kept surface_2_zz
C4_Witness ==
    /\ call.made
    /\ call.res[FALSE].exc.exc = "None"
    /\ args.surface = <<1>>
    /\ args.stress_components = <<"zz", "xz">>
    /\ Wrote(FALSE, "surface_1_zz")
    /\ call.res[FALSE].state["surface_2_zz"] = earlier

\* C5: a configuration that requests derived quantities without all six raw
\* components completes on a state holding the required loads, and writes no
\* raw component that was not requested.
C5_DerivedWithoutRawCompletes ==
    (/\ call.made
     /\ Requested \cap {"1", "2", "3", "vm"} /= {}
     /\ ~(CauchySet \subseteq Requested)
     /\ sub[FALSE].requires \subseteq DOMAIN call.input
     /\ ~args.z.none
     /\ MaterialsOk)
        => /\ call.res[FALSE].exc.exc = "None"
           /\ \A s \in SeqToSet(args.surface) :
                  \A key \in KeysOf(s, CauchySet \ Requested) : ~Wrote(FALSE, key)

\* C6: every load-direction identifier other than 'x' and 'z' and every
\* unrecognised stress component makes construction fail, and no constructed
\* instance raises 'Unrecognised load component' during solve.
C6_EagerValidation ==
    /\ phase = "built"
          => /\ \A i \in DOMAIN args.load_components :
                    args.load_components[i] \in {"x", "z"}
             /\ \A i \in DOMAIN args.stress_components :
                    args.stress_components[i] \in SeqToSet(valid_stresses)
    /\ call.made
          => \A keep \in Keeps :
                call.res[keep].exc.arg /= "Unrecognised load component requested"

\* C7: stress_components 'all' is accepted by the constructor and provides the
\* six Cauchy components of each configured surface and nothing else.
C7_AllIsRecognised ==
    (/\ phase /= "new"
     /\ args.stress_components = <<"all">>
     /\ \A i \in DOMAIN args.load_components : args.load_components[i] \in {"x", "z"})
        => /\ phase = "built"
           /\ \A keep \in Keeps :
                  sub[keep].provides = provides_of(args.surface, Cauchy)

\* C8: wherever the principal stresses are written with defined values, they
\* are ordered: 1 >= 2 >= 3.
C8_PrincipalOrdering ==
    \A keep \in Keeps : \A s \in SeqToSet(args.surface) :
        (/\ call.made
         /\ {"1", "2", "3"} \subseteq Requested
         /\ AllWritten(keep, s)
         /\ \A i \in {"1", "2", "3"} : call.res[keep].state[SurfaceKey(s, i)].k = "num")
            => /\ call.res[keep].state[SurfaceKey(s, "1")].n
                      >= call.res[keep].state[SurfaceKey(s, "2")].n
               /\ call.res[keep].state[SurfaceKey(s, "2")].n
                      >= call.res[keep].state[SurfaceKey(s, "3")].n

\* C9: when every loads_* field of the state is zero, every stress component
\* written is zero, the principal stresses and vm included.
C9_ZeroLoadIdentity ==
    \A keep \in Keeps :
        (/\ call.made
         /\ \A c \in {"x", "z"} :
                LoadKey(c) \in DOMAIN call.input => call.input[LoadKey(c)].n = 0)
            => \A key \in call.res[keep].written :
                  /\ call.res[keep].state[key].k = "num"
                  /\ call.res[keep].state[key].n = 0

\* C10: in every call each configured surface has either all its requested
\* components written or none of its keys written; the surface at which the
\* call fails has none, and a call that succeeds has written them all.
C10_NoPartialSurface ==
    \A keep \in Keeps :
        call.made
            => \A s \in SeqToSet(args.surface) :
                  /\ AllWritten(keep, s) \/ NoneWritten(keep, s)
                  /\ call.res[keep].at = s => NoneWritten(keep, s)
                  /\ call.res[keep].exc.exc = "None" => AllWritten(keep, s)
                  /\ (call.res[keep].exc.exc /= "None" /\ call.res[keep].at = 0)
                        => NoneWritten(keep, s)

\* a call that wrote surface 1 and then failed at surface 2, whose material is
\* not influence matrix based
C10_Witness ==
    /\ call.made
    /\ args.surface = <<1, 2>>
    /\ args.stress_components = <<"zz", "xz">>
    /\ call.res[FALSE].at = 2
    /\ call.res[FALSE].exc.exc = "AssertionError"
    /\ AllWritten(FALSE, 1)
    /\ NoneWritten(FALSE, 2)

\* the instance holds every loads_* key it requires, its surfaces have
\* influence matrix based materials and its load directions are 'x' or 'z'
Runnable ==
    /\ call.made
    /\ MaterialsOk
    /\ sub[FALSE].requires \subseteq DOMAIN call.input
    /\ SeqToSet(args.load_components) \subseteq {"x", "z"}

\* C11: with z left unset (None) solve completes, and every output has the
\* shape (number of default depths,) + the shape of the load field.
C11_UnsetDepthFallsBack ==
    (Runnable /\ args.z.none)
        => /\ call.res[FALSE].exc.exc = "None"
           /\ \A key \in sub[FALSE].provides :
                  /\ key \in DOMAIN call.res[FALSE].state
                  /\ Len(call.res[FALSE].state[key].shape) = 3
                  /\ call.res[FALSE].state[key].shape[1] >= 1
                  /\ SubSeq(call.res[FALSE].state[key].shape, 2, 3)
                         = call.input[LoadKey(args.load_components[1])].shape

\* every configured (surface, load direction) pair, in the order of the loops
\* of lines 103 and 110
PairsOf(surface, load_components) ==
    [i \in 1..(Len(surface) * Len(load_components)) |->
        <<surface[((i - 1) \div Len(load_components)) + 1],
          load_components[((i - 1) % Len(load_components)) + 1]>>]

\* C12: with keep_kernels=False a call that completes builds the kernels of
\* every configured (surface, load direction) pair, once each, whatever calls
\* and spans came before; no call reads kernels from the cache; and the kernel
\* cache and the recorded span stay as the constructor left them.
C12_RebuildsOnEveryCall ==
    phase = "built"
        => /\ sub[FALSE].kernel_cache = init(args, FALSE).kernel_cache
           /\ sub[FALSE].cache_span = <<0, 0>>
           /\ call.made
                 => /\ call.res[FALSE].exc.exc = "None"
                          => call.res[FALSE].builds
                                = PairsOf(args.surface, args.load_components)
                    /\ \/ call.res[FALSE].builds = call.res[FALSE].lookups
                       \/ /\ call.res[FALSE].exc.arg = "Unrecognised load component requested"
                          /\ call.res[FALSE].builds
                                = SubSeq(call.res[FALSE].lookups, 1,
                                         Len(call.res[FALSE].lookups) - 1)

\* a completed call on two surfaces and two load directions, made after an
\* earlier call with another span
C12_Witness ==
    /\ call.made
    /\ args.surface = <<1, 2>>
    /\ args.load_components = <<"x", "z">>
    /\ "loads_x" \in DOMAIN call.input
    /\ call.cached_span /= <<0, 0>>
    /\ call.cached_span /= call.input["loads_x"].shape
    /\ call.res[FALSE].exc.exc = "None"
    /\ Len(call.res[FALSE].builds) = 4

\* C13: UpdateShiftRollingSurface requires exactly {"time_step"} and
\* provides nothing.
C13_RequiresTimeStep ==
    rphase = "built"
        => /\ roller.base.requires = {"time_step"}
           /\ roller.base.provides = {}

\* C14: every step that returns has shifted the configured surface once, by
\* the distances speed_x * time_step and speed_y * time_step, has left the
\* other surface alone and returns the input state unchanged; after n steps
\* the configured surface has been shifted n times.
C14_StepShiftsConfiguredSurface ==
    [][(last_step'.made /\ last_step'.exc.exc = "None" /\ last_step' /= last_step)
          => /\ last_step'.distance_x = rargs.speed_x * last_step'.input["time_step"]
             /\ last_step'.distance_y = rargs.speed_y * last_step'.input["time_step"]
             /\ model_surfaces'[rargs.surface_to_roll]
                   = shift(model_surfaces[rargs.surface_to_roll],
                           last_step'.distance_y, last_step'.distance_x)
             /\ model_surfaces'[3 - rargs.surface_to_roll]
                   = model_surfaces[3 - rargs.surface_to_roll]
             /\ last_step'.state = last_step'.input
             /\ model_surfaces'[rargs.surface_to_roll].shifts = steps']_vars

====
